---------------------------- MODULE Spec2Model ----------------------------
(***************************************************************************)
(* The concurrent file-analysis pipeline of advancedGo: the interactive    *)
(* pipeline of main (producer, worker pool, closer, filter stage,          *)
(* aggregator, cancellation) and the batch entry points AnalyzeSequential  *)
(* and AnalyzeParallel.                                                    *)
(*                                                                         *)
(* A goroutine is a process with a program counter; an unbuffered channel  *)
(* operation is one step in which the sender and the receiver both move;   *)
(* a select whose cases are both ready may take either.                    *)
(***************************************************************************)
EXTENDS Integers, Sequences, FiniteSets, Bags, TLC

(***************************************************************************)
(* Bounds of the model.                                                    *)
(***************************************************************************)
\* the longest list of files handed to a run
MaxFiles == 3
\* the largest worker count (-workers, or the workers argument)
MaxWorkers == 2
\* the longest content of the temporary file of the tests
MaxLen == 4
\* the largest -top-words
MaxTop == 4

\* capacity of the filePaths channel of main
FilePathsCap == 100

(***************************************************************************)
(* Strings are sequences of one-character strings.                         *)
(***************************************************************************)
SP == " "
NL == "\n"

IsSpace(c) == c \in {SP, NL, "\t", "\r"}

UpperCase == <<"A", "B", "C", "D", "E", "F", "G", "H", "I", "J", "K", "L", "M",
               "N", "O", "P", "Q", "R", "S", "T", "U", "V", "W", "X", "Y", "Z">>
LowerCase == <<"a", "b", "c", "d", "e", "f", "g", "h", "i", "j", "k", "l", "m",
               "n", "o", "p", "q", "r", "s", "t", "u", "v", "w", "x", "y", "z">>

\* strings.ToLower, on one character
ToLowerChar(c) ==
    IF \E k \in 1..Len(UpperCase) : UpperCase[k] = c
    THEN LowerCase[CHOOSE k \in 1..Len(UpperCase) : UpperCase[k] = c]
    ELSE c

\* strings.ToLower
ToLower(w) == [i \in 1..Len(w) |-> ToLowerChar(w[i])]

\* strings.Fields: the maximal runs of non-space characters, in order.
\* A field starts at a non-space character that follows a space or nothing,
\* and runs up to the last non-space character before the next space.
FieldStarts(s) ==
    {i \in 1..Len(s) : ~IsSpace(s[i]) /\ (i = 1 \/ IsSpace(s[i - 1]))}

FieldEnd(s, i) ==
    CHOOSE j \in i..Len(s) :
        /\ \A k \in i..j : ~IsSpace(s[k])
        /\ (j = Len(s) \/ IsSpace(s[j + 1]))

\* the start of the k-th field
KthStart(s, k) ==
    CHOOSE i \in FieldStarts(s) :
        Cardinality({j \in FieldStarts(s) : j < i}) = k - 1

Fields(s) ==
    [k \in 1..Cardinality(FieldStarts(s)) |->
        SubSeq(s, KthStart(s, k), FieldEnd(s, KthStart(s, k)))]

\* strings.Count(content, sep) for a one-character sep
Count(s, sep) == Cardinality({i \in 1..Len(s) : s[i] = sep})

(***************************************************************************)
(* AnalysisResult.Data is an `any`: an int, a map[string]int, or nil.      *)
(***************************************************************************)
EmptyMap == [w \in {} |-> 0]

IntData(n) == [tag |-> "int", int |-> n, map |-> EmptyMap]
MapData(m) == [tag |-> "map", int |-> 0, map |-> m]
NilData == [tag |-> "nil", int |-> 0, map |-> EmptyMap]

\* the zero value of AnalysisResult, what make([]AnalysisResult, n) holds
ZeroResult == [NameAnalyzer |-> "", Data |-> NilData]

\* faulty variant: freq[word] = 1
IncrOnce(freq, w) == (w :> 1) @@ freq

\* freq[word]++ on a map[string]int
Incr(freq, w) ==
    IF w \in DOMAIN freq THEN [freq EXCEPT ![w] = @ + 1] ELSE (w :> 1) @@ freq

\* the loop of MostFrequentWordsAnalyzer.Analyze over the words
RECURSIVE FreqOf(_, _)
FreqOf(words, freq) ==
    IF words = <<>> THEN freq
    ELSE FreqOf(Tail(words), Incr(freq, ToLower(Head(words))))

WordCountAnalyze(content) ==
    [NameAnalyzer |-> "word_count", Data |-> IntData(Len(Fields(content)))]

\* faulty variant: the number of newlines, without the + 1
LineCountNewlines(content) ==
    [NameAnalyzer |-> "line_count", Data |-> IntData(Count(content, NL))]

LineCountAnalyze(content) ==
    [NameAnalyzer |-> "line_count", Data |-> IntData(Count(content, NL) + 1)]

MostFrequentWordsAnalyze(content) ==
    [NameAnalyzer |-> "most_frequent_words",
     Data |-> MapData(FreqOf(Fields(content), EmptyMap))]

\* An Analyzer value is named by its Name(); Analyze dispatches on it.
Analyze(a, content) ==
    CASE a = "word_count" -> WordCountAnalyze(content)
      [] a = "line_count" -> LineCountAnalyze(content)
      [] a = "most_frequent_words" -> MostFrequentWordsAnalyze(content)

\* the analyzers of main
MainAnalyzers == <<"word_count", "line_count", "most_frequent_words">>

(***************************************************************************)
(* The file system the run reads: a path is <<directory, file name>>.      *)
(***************************************************************************)
PathOne == <<"d", "one.txt">>
PathTwo == <<"d", "two.txt">>
PathFive == <<"e", "five.txt">>
PathGone == <<"e", "gone.txt">>

\* the files a traversal can find, in the order it finds them
Catalog == <<PathOne, PathGone, PathTwo, PathFive>>

\* a directory with one file more than the filePaths channel holds
LongList == [k \in 1..(FilePathsCap + 1) |-> <<"big", ToString(k)>>]

\* the file createTempFile writes
PathTmp == <<"tmp", "t.txt">>

\* the content of the test: "hello world\nhello go"
HelloWorld ==
    <<"h", "e", "l", "l", "o", SP, "w", "o", "r", "l", "d", NL,
      "h", "e", "l", "l", "o", SP, "g", "o">>

Alphabet == {"a", "A", SP, NL}

\* the strings of length n over Alphabet
StringsOfLen(n) == [1..n -> Alphabet]

\* the contents createTempFile is called with
TmpContents == UNION {StringsOfLen(n) : n \in 0..MaxLen} \cup {HelloWorld}

\* os.ReadFile: the bytes of the file, or an error (the file is gone)
ReadFile(p) ==
    CASE p = PathOne -> [err |-> FALSE, data |-> <<"G", "o">>]
      [] p = PathTwo -> [err |-> FALSE, data |-> <<"H", "i", SP, "h", "i", NL>>]
      [] p = PathFive ->
           [err |-> FALSE, data |-> <<"a", SP, "b", NL, "A", SP, SP, "H", "i", SP, "B">>]
      [] p[1] = "big" -> [err |-> FALSE, data |-> <<"H", "i", SP, "h", "i", NL>>]
      [] OTHER -> [err |-> TRUE, data |-> <<>>]

\* Analyze is a pure function of the analyzer and the content: its values on
\* the contents the file system holds, computed once
AnalyzerNames == {"word_count", "line_count", "most_frequent_words"}

Contents == {ReadFile(Catalog[k]).data : k \in 1..Len(Catalog)}

Analyses == [a \in AnalyzerNames |-> [c \in Contents |-> Analyze(a, c)]]

\* a.Analyze(content)
RunAnalyzer(a, content) ==
    IF content \in Contents THEN Analyses[a][content] ELSE Analyze(a, content)

\* filepath.Base
Base(p) == p[Len(p)]

(***************************************************************************)
(* State.                                                                  *)
(***************************************************************************)
VARIABLES
    mode,            \* "main": the pipeline of main; "par": a call of
                     \* AnalyzeParallel; "seq": a call of AnalyzeSequential
    files,           \* the list of paths to process
    tmpContent,      \* the content of the temporary file PathTmp
    analyzers,       \* the configured analyzers, by name, in order
    workers,         \* the worker count
    cancelled,       \* ctx.Done() is closed
    filePaths,       \* the paths buffered in the filePaths channel
    fpClosed,        \* filePaths is closed
    prodPc,          \* the producer (main) or feeder (AnalyzeParallel) goroutine
    prodIdx,         \* index in files of the next path it sends
    wpc,             \* wpc[w]: where worker w is
    wpath,           \* wpath[w]: the path worker w holds
    wcontent,        \* wcontent[w], wsize[w]: what readFileContent returned
    wsize,
    analysisResults, \* analysisResults[w]: the result slots of the file of worker w
    swg,             \* swg[w]: the analyzer tasks of worker w still running
    wg,              \* the counter of the pool's WaitGroup
    resClosed,       \* results is closed
    closerPc,        \* the goroutine that closes results in main
    fpc,             \* the filter goroutine
    fres,            \* the bundle the filter holds
    filtClosed,      \* filteredResults is closed
    apc,             \* the consumer: the aggregation loop of main, or the
                     \* collection loop of AnalyzeParallel
    totalWords,
    totalLines,
    globalMap,
    out,             \* the list AnalyzeParallel or AnalyzeSequential returns
    topWords,        \* *topWords, as the report at the end of main reads it
    printed,         \* the (word, count) pairs the report prints, in order
    panicked,        \* a goroutine panicked (send on, or close of, a closed channel)
    pulled,          \* history: the paths received from filePaths, in order
    pushed,          \* history: [path, bundle] of every send on results, in order
    forwarded        \* history: the bundles sent on filteredResults, in order

cfgVars == <<mode, files, tmpContent, analyzers, workers>>
prodVars == <<filePaths, fpClosed, prodPc, prodIdx>>
workerVars == <<wpc, wpath, wcontent, wsize, analysisResults, swg, wg>>
stageVars == <<resClosed, closerPc, fpc, fres, filtClosed>>
reportVars == <<topWords, printed>>
aggVars == <<apc, totalWords, totalLines, globalMap, out, reportVars>>
histVars == <<pulled, pushed, forwarded>>

vars == <<cfgVars, cancelled, prodVars, workerVars, stageVars, aggVars,
          panicked, histVars>>

\* os.ReadFile on the file system of the run
OsReadFile(p) ==
    IF p = PathTmp THEN [err |-> FALSE, data |-> tmpContent] ELSE ReadFile(p)

\* readFileContent: (content, size, err)
readFileContent(p) ==
    IF OsReadFile(p).err
    THEN [err |-> TRUE, content |-> <<>>, size |-> 0]
    ELSE [err |-> FALSE, content |-> OsReadFile(p).data,
          size |-> Len(OsReadFile(p).data)]

Range(s) == {s[i] : i \in 1..Len(s)}

\* the subsequences of s
RECURSIVE SubSeqs(_)
SubSeqs(s) ==
    IF s = <<>> THEN {<<>>}
    ELSE SubSeqs(Tail(s)) \cup {<<Head(s)>> \o t : t \in SubSeqs(Tail(s))}

\* the lists of at most n files
FileLists(n) == {s \in SubSeqs(Catalog) : Len(s) <= n}

\* the analyzer lists AnalyzeParallel is called with
ParAnalyzers == {MainAnalyzers, <<"line_count", "word_count">>}

\* the analyzer list of TestAnalyzeSequential
TestAnalyzers == <<"word_count", "line_count">>

\* faulty variant: a count below 1 still starts one worker
WorkersAtLeastOne == 1..(IF workers < 1 THEN 1 ELSE workers)

\* the workers the loop `for i := 0; i < workers; i++` starts
Workers == 1..workers

NoBundle == [FileName |-> "", Size |-> 0, Results |-> <<>>]

\* the values of -workers, and of the workers argument: none is rejected
WorkerCounts == (-1)..MaxWorkers

\* the lists of files of a run
InputLists ==
    CASE mode = "main" /\ workers <= 0 -> FileLists(MaxFiles) \cup {LongList}
      [] mode = "seq" -> FileLists(MaxFiles) \cup {<<PathTmp>>}
      [] OTHER -> FileLists(MaxFiles)

Init ==
    /\ mode \in {"main", "par", "seq"}
    /\ workers \in (IF mode = "seq" THEN {0} ELSE WorkerCounts)
    /\ files \in InputLists
    /\ tmpContent \in (IF files = <<PathTmp>> THEN TmpContents ELSE {<<>>})
    /\ analyzers \in (CASE mode = "main" -> {MainAnalyzers}
                        [] mode = "par" -> ParAnalyzers
                        [] mode = "seq" -> ParAnalyzers \cup {TestAnalyzers})
    /\ cancelled = FALSE
    /\ filePaths = <<>>
    /\ fpClosed = FALSE
    /\ prodPc = "loop"
    /\ prodIdx = 1
    /\ wpc = [w \in Workers |-> "recv"]
    /\ wpath = [w \in Workers |-> <<>>]
    /\ wcontent = [w \in Workers |-> <<>>]
    /\ wsize = [w \in Workers |-> 0]
    /\ analysisResults = [w \in Workers |-> <<>>]
    /\ swg = [w \in Workers |-> {}]
    /\ wg = Cardinality(Workers)
    /\ resClosed = FALSE
    /\ closerPc = IF mode = "main" THEN "wait" ELSE "none"
    /\ fpc = IF mode = "main" THEN "recv" ELSE "none"
    /\ fres = NoBundle
    /\ filtClosed = FALSE
    /\ apc = (IF mode = "seq" THEN "call" ELSE "range")
    /\ totalWords = 0
    /\ totalLines = 0
    /\ globalMap = EmptyMap
    /\ out = <<>>
    /\ topWords = 0
    /\ printed = <<>>
    /\ panicked = FALSE
    /\ pulled = <<>>
    /\ pushed = <<>>
    /\ forwarded = <<>>

(***************************************************************************)
(* The signal goroutine of main: cancel() on an interrupt.                 *)
(***************************************************************************)
Cancel ==
    /\ mode = "main"
    /\ ~cancelled
    /\ cancelled' = TRUE
    /\ UNCHANGED <<cfgVars, prodVars, workerVars, stageVars, aggVars,
                   panicked, histVars>>

(***************************************************************************)
(* The producer of main: a select between ctx.Done() and a send to the     *)
(* buffered filePaths for each file, then the deferred close(filePaths).   *)
(***************************************************************************)
\* faulty variant: every round sees the first file
FileAtFirst(i) == files[1]

\* the loop variable of `for _, file := range files` in its i-th round
FileAt(i) == files[i]

\* case filePaths <- file can proceed
CanSendPath == Len(filePaths) < FilePathsCap

ProducerSend ==
    /\ mode = "main"
    /\ prodPc = "loop"
    /\ prodIdx <= Len(files)
    /\ CanSendPath
    /\ filePaths' = Append(filePaths, FileAt(prodIdx))
    /\ prodIdx' = prodIdx + 1
    /\ UNCHANGED <<cfgVars, cancelled, fpClosed, prodPc, workerVars, stageVars,
                   aggVars, panicked, histVars>>

ProducerCancelled ==
    /\ mode = "main"
    /\ prodPc = "loop"
    /\ prodIdx <= Len(files)
    /\ cancelled
    /\ prodPc' = "done"
    /\ fpClosed' = TRUE
    /\ panicked' = (panicked \/ fpClosed)
    /\ UNCHANGED <<cfgVars, cancelled, filePaths, prodIdx, workerVars, stageVars,
                   aggVars, histVars>>

ProducerExhausted ==
    /\ mode = "main"
    /\ prodPc = "loop"
    /\ prodIdx > Len(files)
    /\ prodPc' = "done"
    /\ fpClosed' = TRUE
    /\ panicked' = (panicked \/ fpClosed)
    /\ UNCHANGED <<cfgVars, cancelled, filePaths, prodIdx, workerVars, stageVars,
                   aggVars, histVars>>

(***************************************************************************)
(* What a worker does with a path; the same code in main and in            *)
(* AnalyzeParallel.                                                        *)
(***************************************************************************)
\* the worker's locals, out of scope again at the top of its loop
ClearLocals(w) ==
    /\ wpath' = [wpath EXCEPT ![w] = <<>>]
    /\ wcontent' = [wcontent EXCEPT ![w] = <<>>]
    /\ wsize' = [wsize EXCEPT ![w] = 0]
    /\ analysisResults' = [analysisResults EXCEPT ![w] = <<>>]

\* faulty variant: a read error ends the worker (return for continue)
ReadErrorReturn(w) ==
    /\ wpc' = [wpc EXCEPT ![w] = "done"]
    /\ wg' = wg - 1
    /\ UNCHANGED <<wpath, wcontent, wsize, analysisResults, swg>>

\* if err != nil { continue }: back to the top of the loop
ReadErrorStep(w) ==
    /\ wpc' = [wpc EXCEPT ![w] = "recv"]
    /\ UNCHANGED <<wpath, wcontent, wsize, analysisResults, swg, wg>>

\* what the worker does with the path it has received, up to swg.Wait():
\* readFileContent; on an error `continue`; else make the result slots and
\* start one task per analyzer (swg.Add(1) each)
ReadStep(w, path) ==
    LET r == readFileContent(path) IN
      IF r.err
      THEN ReadErrorStep(w)
      ELSE /\ wpc' = [wpc EXCEPT ![w] = "wait"]
           /\ wpath' = [wpath EXCEPT ![w] = path]
           /\ wcontent' = [wcontent EXCEPT ![w] = r.content]
           /\ wsize' = [wsize EXCEPT ![w] = r.size]
           /\ analysisResults' =
                  [analysisResults EXCEPT
                      ![w] = [i \in 1..Len(analyzers) |-> ZeroResult]]
           /\ swg' = [swg EXCEPT ![w] = 1..Len(analyzers)]
           /\ UNCHANGED wg

\* faulty variant: the tasks share the loop variable and see its last value
TaskSlotShared(i) == Len(analyzers)

\* the slot the task of analyzer i writes
TaskSlot(i) == i

\* faulty variant: the result goes to the first free slot, as append would put it
StoreAppended(slots, i, r) ==
    [slots EXCEPT ![CHOOSE k \in 1..Len(slots) :
                       /\ slots[k] = ZeroResult
                       /\ \A j \in 1..(k - 1) : slots[j] # ZeroResult] = r]

\* analysisResults[i] = a.Analyze(content)
StoreResult(slots, i, r) == [slots EXCEPT ![TaskSlot(i)] = r]

\* the task of analyzer i of worker w: store the result, then swg.Done()
TaskStep(w, i) ==
    /\ i \in swg[w]
    /\ analysisResults' =
           [analysisResults EXCEPT
               ![w] = StoreResult(analysisResults[w], i,
                                  RunAnalyzer(analyzers[i], wcontent[w]))]
    /\ swg' = [swg EXCEPT ![w] = @ \ {i}]
    /\ UNCHANGED <<wpc, wpath, wcontent, wsize, wg>>

\* faulty variant: the bundle is sent without waiting for the tasks
SwgWaitNone(w) == TRUE

\* swg.Wait() returns
SwgWait(w) == swg[w] = {}

\* the FileAnalysisResult the worker sends
Bundle(w) ==
    [FileName |-> Base(wpath[w]), Size |-> wsize[w], Results |-> analysisResults[w]]

\* faulty variant: the worker returns without wg.Done()
ExitStepNoDone(w) ==
    /\ wpc' = [wpc EXCEPT ![w] = "done"]
    /\ UNCHANGED <<wpath, wcontent, wsize, analysisResults, swg, wg>>

\* the worker function returns: the deferred wg.Done()
ExitStep(w) ==
    /\ wpc' = [wpc EXCEPT ![w] = "done"]
    /\ wg' = wg - 1
    /\ UNCHANGED <<wpath, wcontent, wsize, analysisResults, swg>>

\* faulty variant: results is closed without waiting for the pool
WgWaitNone == TRUE

\* wg.Wait() returns
WgWait == wg = 0

(***************************************************************************)
(* The filter stage of main.                                               *)
(***************************************************************************)
\* show: false when a word_count result is below 2
RECURSIVE ShowFrom(_, _)
ShowFrom(results, k) ==
    IF k > Len(results) THEN TRUE
    ELSE IF results[k].NameAnalyzer = "word_count" /\ results[k].Data.int < 2
         THEN FALSE
         ELSE ShowFrom(results, k + 1)

\* faulty variant: a word count of 2 is dropped as well
ShowAboveTwo(res) ==
    \A k \in 1..Len(res.Results) :
        res.Results[k].NameAnalyzer = "word_count" => res.Results[k].Data.int > 2

Show(res) == ShowFrom(res.Results, 1)

\* faulty variant: a bundle to show is held and the next one is received
FilterReceiveKeeps(res) ==
    /\ fpc' = "recv"
    /\ fres' = (IF Show(res) THEN res ELSE NoBundle)

\* `for res := range results` receives res and runs the body up to `if show`:
\* the filter goes on to send res, or drops it and receives again
FilterReceive(res) ==
    IF Show(res)
    THEN fpc' = "send" /\ fres' = res
    ELSE fpc' = "recv" /\ fres' = NoBundle

(***************************************************************************)
(* The workers of main.                                                    *)
(***************************************************************************)
\* faulty variant: a worker that has a bundle to send selects as well
AtSelectAlways(w) == wpc[w] # "done"

\* the worker is at the select at the top of its loop
AtSelect(w) == wpc[w] = "recv"

\* case <-ctx.Done() of the worker's select can proceed: the select at the
\* top of the loop is the one place where a worker looks at ctx.Done()
SeesDone(w) == AtSelect(w) /\ cancelled

\* select: case <-ctx.Done()
WorkerCancelled(w) ==
    /\ mode = "main"
    /\ SeesDone(w)
    /\ ExitStep(w)
    /\ UNCHANGED <<cfgVars, cancelled, prodVars, stageVars, aggVars, panicked,
                   histVars>>

\* select: case path, ok := <-filePaths, with ok; the file is read and its
\* analyzer tasks are started
WorkerRecv(w) ==
    /\ mode = "main"
    /\ AtSelect(w)
    /\ filePaths # <<>>
    /\ filePaths' = Tail(filePaths)
    /\ pulled' = Append(pulled, Head(filePaths))
    /\ ReadStep(w, Head(filePaths))
    /\ UNCHANGED <<cfgVars, cancelled, fpClosed, prodPc, prodIdx, stageVars,
                   aggVars, panicked, pushed, forwarded>>

\* select: case path, ok := <-filePaths, with !ok
WorkerClosed(w) ==
    /\ mode = "main"
    /\ AtSelect(w)
    /\ filePaths = <<>>
    /\ fpClosed
    /\ ExitStep(w)
    /\ UNCHANGED <<cfgVars, cancelled, prodVars, stageVars, aggVars, panicked,
                   histVars>>

AnalyzerTask(w, i) ==
    /\ mode = "main"
    /\ TaskStep(w, i)
    /\ UNCHANGED <<cfgVars, cancelled, prodVars, stageVars, aggVars, panicked,
                   histVars>>

\* swg.Wait() has returned; results <- FileAnalysisResult{...}: the filter
\* receives it (results is unbuffered) and decides on it; a send on a closed
\* channel panics
WorkerPush(w) ==
    /\ mode = "main"
    /\ wpc[w] = "wait"
    /\ SwgWait(w)
    /\ IF resClosed
       THEN /\ panicked' = TRUE
            /\ wpc' = [wpc EXCEPT ![w] = "done"]
            /\ UNCHANGED <<wpath, wcontent, wsize, analysisResults, fpc, fres,
                           pushed>>
       ELSE /\ fpc = "recv"
            /\ FilterReceive(Bundle(w))
            /\ pushed' = Append(pushed, [path |-> wpath[w], bundle |-> Bundle(w)])
            /\ wpc' = [wpc EXCEPT ![w] = "recv"]
            /\ ClearLocals(w)
            /\ UNCHANGED panicked
    /\ UNCHANGED <<cfgVars, cancelled, prodVars, swg, wg, resClosed, closerPc,
                   filtClosed, aggVars, pulled, forwarded>>

(***************************************************************************)
(* The closer of main: wg.Wait(); close(results).                          *)
(***************************************************************************)
CloserClose ==
    /\ mode = "main"
    /\ closerPc = "wait"
    /\ WgWait
    /\ closerPc' = "done"
    /\ resClosed' = TRUE
    /\ panicked' = (panicked \/ resClosed)
    /\ UNCHANGED <<cfgVars, cancelled, prodVars, workerVars, fpc, fres, filtClosed,
                   aggVars, histVars>>

(***************************************************************************)
(* The aggregation loop of main and the end of the filter.                 *)
(***************************************************************************)
\* faulty variant: globalMap[word] = count
MergeFreqOverwrite(g, freq) ==
    [k \in DOMAIN g \cup DOMAIN freq |->
        IF k \in DOMAIN freq THEN freq[k] ELSE g[k]]

\* globalMap[word] += count for every word of freq
MergeFreq(g, freq) ==
    [k \in DOMAIN g \cup DOMAIN freq |->
        (IF k \in DOMAIN g THEN g[k] ELSE 0)
        + (IF k \in DOMAIN freq THEN freq[k] ELSE 0)]

\* one AnalysisResult in the switch of the aggregation loop
AccumulateOne(acc, res) ==
    CASE res.NameAnalyzer = "word_count" ->
           [acc EXCEPT !.totalWords = @ + res.Data.int]
      [] res.NameAnalyzer = "line_count" ->
           [acc EXCEPT !.totalLines = @ + res.Data.int]
      [] res.NameAnalyzer = "most_frequent_words" ->
           [acc EXCEPT !.globalMap = MergeFreq(@, res.Data.map)]
      [] OTHER -> acc

\* the inner loop over result.Results
RECURSIVE Accumulate(_, _)
Accumulate(acc, results) ==
    IF results = <<>> THEN acc
    ELSE Accumulate(AccumulateOne(acc, Head(results)), Tail(results))

\* filteredResults <- res, received by the aggregation loop of main, which
\* runs its body on it (filteredResults is unbuffered)
FilterForward ==
    /\ mode = "main"
    /\ fpc = "send"
    /\ apc = "range"
    /\ LET acc == Accumulate([totalWords |-> totalWords, totalLines |-> totalLines,
                              globalMap |-> globalMap], fres.Results)
       IN /\ totalWords' = acc.totalWords
          /\ totalLines' = acc.totalLines
          /\ globalMap' = acc.globalMap
    /\ forwarded' = Append(forwarded, fres)
    /\ fpc' = "recv"
    /\ fres' = NoBundle
    /\ UNCHANGED <<cfgVars, cancelled, prodVars, workerVars, resClosed, closerPc,
                   filtClosed, apc, out, reportVars, panicked, pulled, pushed>>

\* faulty variant: the filter returns as soon as no bundle is waiting
RangeResultsEndsEarly == TRUE

\* `for res := range results` ends: results is closed
RangeResultsEnds == resClosed

\* range results ends: the deferred close(filteredResults)
FilterClose ==
    /\ mode = "main"
    /\ fpc = "recv"
    /\ RangeResultsEnds
    /\ fpc' = "done"
    /\ filtClosed' = TRUE
    /\ panicked' = (panicked \/ filtClosed)
    /\ UNCHANGED <<cfgVars, cancelled, prodVars, workerVars, resClosed, closerPc,
                   fres, aggVars, histVars>>

\* faulty variant: the less function compares with <
LessAscending(x, y) == x.Count < y.Count

\* the less function of sort.Slice: words[i].Count > words[j].Count
Less(x, y) == x.Count > y.Count

\* the WordCount values `for w, c := range globalMap` appends
WordCountsOf(m) == {[Word |-> w, Count |-> m[w]] : w \in DOMAIN m}

\* the slices the loop can build: a map is ranged over in any order
WordSlices(m) ==
    {s \in [1..Cardinality(DOMAIN m) -> WordCountsOf(m)] :
        \A i, j \in 1..Cardinality(DOMAIN m) : i # j => s[i] # s[j]}

\* what sort.Slice can leave: no element is less than one before it; the
\* sort is not stable, so equal counts end in any order
Sorted(s) == \A i, j \in 1..Len(s) : i < j => ~Less(s[j], s[i])

SortedWords(m) == {s \in WordSlices(m) : Sorted(s)}

\* n := *topWords; if n > len(words) { n = len(words) }
TopN(t, words) == IF t > Len(words) THEN Len(words) ELSE t

\* the pairs the loop `for i := 0; i < n; i++` prints
Printed(t, words) == [i \in 1..TopN(t, words) |-> words[i]]

\* range filteredResults ends: main prints the totals and, if *topWords > 0,
\* sorts the words of globalMap and prints the first n
AggregatorEnd ==
    /\ mode = "main"
    /\ apc = "range"
    /\ filtClosed
    /\ apc' = "done"
    /\ \E t \in 0..MaxTop :
          /\ topWords' = t
          /\ IF t > 0
             THEN \E words \in SortedWords(globalMap) : printed' = Printed(t, words)
             ELSE printed' = <<>>
    /\ UNCHANGED <<cfgVars, cancelled, prodVars, workerVars, stageVars, totalWords,
                   totalLines, globalMap, out, panicked, histVars>>

(***************************************************************************)
(* AnalyzeParallel: filePaths and results are unbuffered; one goroutine    *)
(* feeds the paths, closes filePaths, waits for the pool and closes        *)
(* results; the caller collects the bundles into out.                      *)
(***************************************************************************)
\* filePaths <- f, received by worker w at `for path := range filePaths`;
\* the file is read and its analyzer tasks are started
ParFeed(w) ==
    /\ mode = "par"
    /\ prodPc = "loop"
    /\ prodIdx <= Len(files)
    /\ wpc[w] = "recv"
    /\ ~fpClosed
    /\ pulled' = Append(pulled, FileAt(prodIdx))
    /\ prodIdx' = prodIdx + 1
    /\ ReadStep(w, FileAt(prodIdx))
    /\ UNCHANGED <<cfgVars, cancelled, filePaths, fpClosed, prodPc, stageVars,
                   aggVars, panicked, pushed, forwarded>>

\* close(filePaths)
ParFeederClose ==
    /\ mode = "par"
    /\ prodPc = "loop"
    /\ prodIdx > Len(files)
    /\ fpClosed' = TRUE
    /\ panicked' = (panicked \/ fpClosed)
    /\ prodPc' = "wait"
    /\ UNCHANGED <<cfgVars, cancelled, filePaths, prodIdx, workerVars, stageVars,
                   aggVars, histVars>>

\* wg.Wait(); close(results)
ParFeederCloseResults ==
    /\ mode = "par"
    /\ prodPc = "wait"
    /\ WgWait
    /\ resClosed' = TRUE
    /\ panicked' = (panicked \/ resClosed)
    /\ prodPc' = "done"
    /\ UNCHANGED <<cfgVars, cancelled, filePaths, fpClosed, prodIdx, workerVars,
                   closerPc, fpc, fres, filtClosed, aggVars, histVars>>

\* range filePaths ends
ParWorkerExit(w) ==
    /\ mode = "par"
    /\ wpc[w] = "recv"
    /\ fpClosed
    /\ ExitStep(w)
    /\ UNCHANGED <<cfgVars, cancelled, prodVars, stageVars, aggVars, panicked,
                   histVars>>

ParAnalyzerTask(w, i) ==
    /\ mode = "par"
    /\ TaskStep(w, i)
    /\ UNCHANGED <<cfgVars, cancelled, prodVars, stageVars, aggVars, panicked,
                   histVars>>

\* swg.Wait() has returned; results <- FileAnalysisResult{...}, received by
\* the caller's `for r := range results`, which appends it to out
ParWorkerPush(w) ==
    /\ mode = "par"
    /\ wpc[w] = "wait"
    /\ SwgWait(w)
    /\ IF resClosed
       THEN /\ panicked' = TRUE
            /\ wpc' = [wpc EXCEPT ![w] = "done"]
            /\ UNCHANGED <<wpath, wcontent, wsize, analysisResults, out, pushed>>
       ELSE /\ apc = "range"
            /\ out' = Append(out, Bundle(w))
            /\ pushed' = Append(pushed, [path |-> wpath[w], bundle |-> Bundle(w)])
            /\ wpc' = [wpc EXCEPT ![w] = "recv"]
            /\ ClearLocals(w)
            /\ UNCHANGED panicked
    /\ UNCHANGED <<cfgVars, cancelled, prodVars, swg, wg, stageVars, apc,
                   totalWords, totalLines, globalMap, reportVars, pulled,
                   forwarded>>

\* faulty variant: the caller returns without waiting for the close
CollectEndsEarly == TRUE

\* `for r := range results` of the caller ends: results is closed
CollectEnds == resClosed

\* range results ends: return out, nil
ParReturn ==
    /\ mode = "par"
    /\ apc = "range"
    /\ CollectEnds
    /\ apc' = "done"
    /\ UNCHANGED <<cfgVars, cancelled, prodVars, workerVars, stageVars, totalWords,
                   totalLines, globalMap, out, reportVars, panicked, histVars>>

(***************************************************************************)
(* AnalyzeSequential.                                                      *)
(***************************************************************************)
\* the inner loop: append each analyzer's result
RECURSIVE AnalyzeAll(_, _, _)
AnalyzeAll(as, content, acc) ==
    IF as = <<>> THEN acc
    ELSE AnalyzeAll(Tail(as), content, Append(acc, RunAnalyzer(Head(as), content)))

\* the outer loop over files
RECURSIVE SequentialFrom(_, _, _)
SequentialFrom(fs, as, results) ==
    IF fs = <<>> THEN results
    ELSE LET r == readFileContent(Head(fs)) IN
         IF r.err
         THEN SequentialFrom(Tail(fs), as, results)
         ELSE SequentialFrom(Tail(fs), as,
                  Append(results,
                         [FileName |-> Base(Head(fs)), Size |-> r.size,
                          Results |-> AnalyzeAll(as, r.content, <<>>)]))

\* the files before the first one that cannot be read
ReadablePrefix(fs) ==
    SubSeq(fs, 1, CHOOSE n \in 0..Len(fs) :
                      /\ \A k \in 1..n : ~readFileContent(fs[k]).err
                      /\ (n = Len(fs) \/ readFileContent(fs[n + 1]).err))

\* faulty variant: a read error ends the loop (break for continue)
AnalyzeSequentialStops(fs, as) == SequentialFrom(ReadablePrefix(fs), as, <<>>)

AnalyzeSequential(fs, as) == SequentialFrom(fs, as, <<>>)

\* a call of AnalyzeSequential(files, analyzers) runs and returns
SeqCall ==
    /\ mode = "seq"
    /\ apc = "call"
    /\ out' = AnalyzeSequential(files, analyzers)
    /\ apc' = "done"
    /\ UNCHANGED <<cfgVars, cancelled, prodVars, workerVars, stageVars, totalWords,
                   totalLines, globalMap, reportVars, panicked, histVars>>

(***************************************************************************)
(* The specifications.                                                     *)
(***************************************************************************)
MainNext ==
    \/ Cancel
    \/ ProducerSend
    \/ ProducerCancelled
    \/ ProducerExhausted
    \/ \E w \in Workers : WorkerCancelled(w)
    \/ \E w \in Workers : WorkerRecv(w)
    \/ \E w \in Workers : WorkerClosed(w)
    \/ \E w \in Workers : \E i \in 1..Len(analyzers) : AnalyzerTask(w, i)
    \/ \E w \in Workers : WorkerPush(w)
    \/ CloserClose
    \/ FilterForward
    \/ FilterClose
    \/ AggregatorEnd

ParNext ==
    \/ \E w \in Workers : ParFeed(w)
    \/ ParFeederClose
    \/ ParFeederCloseResults
    \/ \E w \in Workers : ParWorkerExit(w)
    \/ \E w \in Workers : \E i \in 1..Len(analyzers) : ParAnalyzerTask(w, i)
    \/ \E w \in Workers : ParWorkerPush(w)
    \/ ParReturn

SeqNext == SeqCall

Next == MainNext \/ ParNext \/ SeqNext

Spec == Init /\ [][Next]_vars

\* every step of a goroutine of the two pipelines but the interrupt, which
\* nothing obliges to come
Progress ==
    \/ ProducerSend
    \/ ProducerCancelled
    \/ ProducerExhausted
    \/ \E w \in Workers : WorkerCancelled(w)
    \/ \E w \in Workers : WorkerRecv(w)
    \/ \E w \in Workers : WorkerClosed(w)
    \/ \E w \in Workers : \E i \in 1..Len(analyzers) : AnalyzerTask(w, i)
    \/ \E w \in Workers : WorkerPush(w)
    \/ CloserClose
    \/ FilterForward
    \/ FilterClose
    \/ AggregatorEnd
    \/ ParNext

\* the Go scheduler runs a goroutine that can take a step
FairSpec == Spec /\ WF_vars(Progress)

(***************************************************************************)
(* Vocabulary of the properties.                                           *)
(***************************************************************************)
Readable(p) == ~readFileContent(p).err

\* how often path p was received from filePaths / had a bundle sent on results
PullCount(p) == Cardinality({i \in 1..Len(pulled) : pulled[i] = p})
PushCount(p) == Cardinality({i \in 1..Len(pushed) : pushed[i].path = p})

\* the bundles sent on results, in order
PushedBundles == [i \in 1..Len(pushed) |-> pushed[i].bundle]

AllWorkersDone == \A w \in Workers : wpc[w] = "done"

\* every goroutine of the pipeline of main has returned and both streams are closed
MainDone ==
    /\ mode = "main"
    /\ prodPc = "done"
    /\ AllWorkersDone
    /\ closerPc = "done"
    /\ fpc = "done"
    /\ apc = "done"
    /\ resClosed
    /\ filtClosed

\* AnalyzeParallel has returned and its goroutines have ended
ParDone ==
    /\ mode = "par"
    /\ prodPc = "done"
    /\ AllWorkersDone
    /\ apc = "done"
    /\ resClosed

\* exactly one bundle per path of files, none twice, none missing
OneBundlePerPath ==
    /\ Len(pushed) = Len(files)
    /\ \A p \in Range(files) : PushCount(p) = 1 /\ PullCount(p) = 1

\* C1: with N paths, M workers (1 <= M < N), no read error and no
\* cancellation, every run of the pool, in main and in AnalyzeParallel, ends
\* having sent exactly one bundle per input path.
C1_ExactlyOncePerPath ==
    <>( \/ cancelled
        \/ ~(1 <= workers /\ workers < Len(files))
        \/ \E p \in Range(files) : ~Readable(p)
        \/ (MainDone \/ ParDone) /\ OneBundlePerPath )

C1_Witness ==
    /\ MainDone
    /\ ~cancelled
    /\ workers = 2
    /\ Len(files) = 3
    /\ \A p \in Range(files) : Readable(p)
    /\ OneBundlePerPath

\* C2: results is closed only after every worker has exited: no worker is
\* still running once it is closed, no send hits the closed channel and it
\* is not closed twice (either would panic).
C2_CloseAfterJoin ==
    /\ ~panicked
    /\ resClosed => AllWorkersDone /\ wg = 0

C2_Witness ==
    /\ resClosed
    /\ workers = 2
    /\ cancelled
    /\ Len(pushed) >= 1
    /\ \E p \in Range(pulled) : ~Readable(p)

\* C3: once cancellation has fired in the pipeline of main, whatever was
\* processed before, at most N bundles are ever sent and the producer, the
\* workers, the closer, the filter and the aggregator all finish, with
\* results and filteredResults closed.
C3_CancelTerminates ==
    /\ [](mode = "main" => Len(pushed) <= Len(files))
    /\ ((mode = "main" /\ cancelled) ~> MainDone)

C3_Witness ==
    /\ MainDone
    /\ cancelled
    /\ Len(files) = 3
    /\ Len(pulled) = 2
    /\ Len(pushed) = 1
    /\ prodIdx = 3

\* C4: once cancel() has run, a worker about to send, or blocked sending, a
\* bundle gives the send up: no bundle is sent on results after cancellation.
C4_NoPushAfterCancel == [][cancelled => pushed' = pushed]_vars

\* C5: once cancel() has run the producer enqueues no further path and no
\* worker receives a further path.
C5_NoWorkAfterCancel ==
    [][cancelled => (prodIdx' = prodIdx /\ pulled' = pulled)]_vars

\* the multiset of the elements of a sequence
BagOfSeq(s) == [x \in Range(s) |-> Cardinality({i \in 1..Len(s) : s[i] = x})]

\* C6: what AnalyzeParallel returns is, as a multiset, what AnalyzeSequential
\* returns for the same files and analyzers, whatever the worker count and
\* the interleaving, read errors included.
C6_SameMultiset ==
    (mode = "par" /\ apc = "done") =>
        BagOfSeq(out) = BagOfSeq(AnalyzeSequential(files, analyzers))

C6_Witness ==
    /\ mode = "par"
    /\ apc = "done"
    /\ workers = 2
    /\ \E p \in Range(files) : ~Readable(p)
    /\ Len(out) = 2
    /\ out # AnalyzeSequential(files, analyzers)

\* C7: every bundle sent on results has one result per configured analyzer,
\* the i-th being what the i-th analyzer returns for the file's content: no
\* slot is still empty when the bundle is sent.
C7_FullBundles ==
    \A k \in 1..Len(pushed) :
        LET b == pushed[k].bundle
            c == readFileContent(pushed[k].path).content
        IN /\ Len(b.Results) = Len(analyzers)
           /\ \A i \in 1..Len(analyzers) :
                  /\ b.Results[i].NameAnalyzer = analyzers[i]
                  /\ b.Results[i] = Analyze(analyzers[i], c)

\* a bundle has been sent, and of the next file the last tasks finished first
C7_Witness ==
    /\ Len(pushed) >= 1
    /\ \E w \in Workers : wpc[w] = "wait" /\ swg[w] = {1}

\* C8: a read error skips that file only. No path is pulled twice, a path
\* that fails to read gets no bundle, and without cancellation the pool ends
\* with every path pulled once and every readable path's bundle sent once.
C8_ReadErrorSkips ==
    /\ [](\A p \in Range(files) :
              PullCount(p) <= 1 /\ (~Readable(p) => PushCount(p) = 0))
    /\ <>( \/ cancelled
           \/ workers <= 0
           \/ /\ MainDone \/ ParDone
              /\ \A p \in Range(files) :
                     /\ PullCount(p) = 1
                     /\ PushCount(p) = IF Readable(p) THEN 1 ELSE 0 )

\* one worker met the error and went on to the next path
C8_Witness ==
    /\ MainDone
    /\ ~cancelled
    /\ workers = 1
    /\ files = <<PathOne, PathGone, PathTwo>>
    /\ Len(pushed) = 2

\* the word_count result of a bundle
WordCountOf(b) ==
    b.Results[CHOOSE i \in 1..Len(b.Results) :
                  b.Results[i].NameAnalyzer = "word_count"].Data.int

\* the predicate of the filter stage: word count at least 2
PassesFilter(b) == WordCountOf(b) >= 2

WordCounts(bs) == [k \in 1..Len(bs) |-> WordCountOf(bs[k])]

\* C9: the filter forwards exactly the bundles with a word count of at least
\* 2, in the order in which it received them.
C9_FilterInOrder ==
    mode = "main" =>
        forwarded \o (IF fpc = "send" THEN <<fres>> ELSE <<>>)
            = SelectSeq(PushedBundles, PassesFilter)

C9_Witness ==
    /\ MainDone
    /\ WordCounts(PushedBundles) = <<1, 2, 5>>
    /\ WordCounts(forwarded) = <<2, 5>>

RECURSIVE SumSeq(_)
SumSeq(s) == IF s = <<>> THEN 0 ELSE Head(s) + SumSeq(Tail(s))

\* C10: when the aggregation loop of main ends, filteredResults and results
\* are closed, the filter, the closer and every worker have returned, no
\* stage holds a bundle, and every bundle that passed the filter has been
\* received and accumulated.
C10_AggregatorEndsLast ==
    (mode = "main" /\ apc = "done") =>
        /\ filtClosed /\ fpc = "done"
        /\ resClosed /\ closerPc = "done"
        /\ AllWorkersDone
        /\ fres = NoBundle
        /\ \A w \in Workers : wpath[w] = <<>> /\ swg[w] = {}
        /\ Len(forwarded) = Len(SelectSeq(PushedBundles, PassesFilter))
        /\ totalWords = SumSeq(WordCounts(SelectSeq(PushedBundles, PassesFilter)))

C10_Witness ==
    /\ mode = "main"
    /\ apc = "done"
    /\ Len(pushed) = 3
    /\ Len(forwarded) = 2
    /\ totalWords = 7

\* the paths of files, in the order of files, whose bundle was sent on results
\* and passed the filter
KeptPath(p) ==
    \E k \in 1..Len(pushed) : pushed[k].path = p /\ PassesFilter(pushed[k].bundle)

KeptPaths == SelectSeq(files, KeptPath)

\* what the analyzers return for the file at p
WordsOfFile(p) == Analyze("word_count", readFileContent(p).content).Data.int
LinesOfFile(p) == Analyze("line_count", readFileContent(p).content).Data.int
FreqOfFile(p, w) ==
    LET m == Analyze("most_frequent_words", readFileContent(p).content).Data.map
    IN IF w \in DOMAIN m THEN m[w] ELSE 0

WordsOfFiles(ps) == UNION {DOMAIN Analyze("most_frequent_words",
                                          readFileContent(ps[k]).content).Data.map
                              : k \in 1..Len(ps)}

\* a bundle that holds only a frequency map
FreqBundle(m) ==
    [FileName |-> "f", Size |-> 0,
     Results |-> <<[NameAnalyzer |-> "most_frequent_words", Data |-> MapData(m)]>>]

ZeroTotals == [totalWords |-> 0, totalLines |-> 0, globalMap |-> EmptyMap]

\* the aggregation loop run over a list of bundles
RECURSIVE AggregateAll(_, _)
AggregateAll(acc, bs) ==
    IF bs = <<>> THEN acc
    ELSE AggregateAll(Accumulate(acc, Head(bs).Results), Tail(bs))

\* C11: when the aggregation loop of main has ended, totalWords, totalLines
\* and every count of globalMap are the sums, over exactly the files whose
\* bundle passed the filter, of the file's word count, line count and
\* frequency of the word, whatever the order in which the bundles arrived;
\* the maps {a:1,b:2} and {a:3} give {a:4,b:2} in either order.
C11_TotalsOverFiltered ==
    /\ (mode = "main" /\ apc = "done") =>
           /\ totalWords = SumSeq([k \in 1..Len(KeptPaths) |-> WordsOfFile(KeptPaths[k])])
           /\ totalLines = SumSeq([k \in 1..Len(KeptPaths) |-> LinesOfFile(KeptPaths[k])])
           /\ DOMAIN globalMap = WordsOfFiles(KeptPaths)
           /\ \A w \in DOMAIN globalMap :
                  globalMap[w] =
                      SumSeq([k \in 1..Len(KeptPaths) |-> FreqOfFile(KeptPaths[k], w)])
    /\ LET A == FreqBundle((<<"a">> :> 1) @@ (<<"b">> :> 2))
           B == FreqBundle(<<"a">> :> 3)
       IN /\ AggregateAll(ZeroTotals, <<A, B>>).globalMap = (<<"a">> :> 4) @@ (<<"b">> :> 2)
          /\ AggregateAll(ZeroTotals, <<B, A>>).globalMap = (<<"a">> :> 4) @@ (<<"b">> :> 2)

\* the bundles arrived against the order of files, one was dropped by the
\* filter, and a word of both files was counted
C11_Witness ==
    /\ mode = "main"
    /\ apc = "done"
    /\ files = <<PathOne, PathTwo, PathFive>>
    /\ Len(pushed) = 3
    /\ [k \in 1..Len(forwarded) |-> forwarded[k].FileName] = <<"five.txt", "two.txt">>
    /\ globalMap = (<<"h", "i">> :> 3) @@ (<<"a">> :> 2) @@ (<<"b">> :> 2)
    /\ totalWords = 7
    /\ totalLines = 4

Min(a, b) == IF a < b THEN a ELSE b

\* C12: when -top-words is N > 0 the report has exactly
\* min(N, number of distinct words) pairs, each a word of globalMap with its
\* count and no word twice, in non-increasing order of count, and no word
\* left out has a greater count than a word reported.
C12_TopWords ==
    (mode = "main" /\ apc = "done" /\ topWords > 0) =>
        /\ Len(printed) = Min(topWords, Cardinality(DOMAIN globalMap))
        /\ \A k \in 1..Len(printed) :
               /\ printed[k].Word \in DOMAIN globalMap
               /\ printed[k].Count = globalMap[printed[k].Word]
        /\ \A i, j \in 1..Len(printed) :
               /\ i # j => printed[i].Word # printed[j].Word
               /\ i < j => printed[i].Count >= printed[j].Count
        /\ \A w \in DOMAIN globalMap :
               (\A k \in 1..Len(printed) : printed[k].Word # w) =>
                   \A k \in 1..Len(printed) : globalMap[w] <= printed[k].Count

\* two of three words are reported, and of the two words with equal counts
\* the later in the alphabet came first
C12_Witness ==
    /\ mode = "main"
    /\ apc = "done"
    /\ topWords = 2
    /\ globalMap = (<<"h", "i">> :> 3) @@ (<<"a">> :> 2) @@ (<<"b">> :> 2)
    /\ printed = <<[Word |-> <<"h", "i">>, Count |-> 3], [Word |-> <<"b">>, Count |-> 2]>>

\* C13: AnalyzeSequential returns one bundle per file that can be read and
\* none for a file whose read fails, in the order of the input list, each
\* with the file's base name, size and one result per analyzer in analyzer
\* order; for a single readable file the list has length 1.
C13_SequentialInOrder ==
    /\ (mode = "seq" /\ apc = "call") => out = <<>>
    /\ (mode = "seq" /\ apc = "done") =>
           LET good == SelectSeq(files, Readable) IN
             /\ Len(out) = Len(good)
             /\ \A k \in 1..Len(good) :
                    /\ out[k].FileName = Base(good[k])
                    /\ out[k].Size = Len(readFileContent(good[k]).content)
                    /\ Len(out[k].Results) = Len(analyzers)
                    /\ \A i \in 1..Len(analyzers) :
                           out[k].Results[i] =
                               Analyze(analyzers[i], readFileContent(good[k]).content)
             /\ (Len(files) = 1 /\ Readable(files[1])) => Len(out) = 1

\* the file in the middle cannot be read; the two around it are returned
C13_Witness ==
    /\ mode = "seq"
    /\ apc = "done"
    /\ files = <<PathOne, PathGone, PathTwo>>
    /\ [k \in 1..Len(out) |-> out[k].FileName] = <<"one.txt", "two.txt">>

\* the number of newline characters of s
RECURSIVE NewlinesIn(_)
NewlinesIn(s) ==
    IF s = <<>> THEN 0
    ELSE (IF Head(s) = NL THEN 1 ELSE 0) + NewlinesIn(Tail(s))

\* the number of non-empty whitespace-delimited tokens of s, counted by a
\* scan that remembers whether it is inside a token
RECURSIVE TokensIn(_, _)
TokensIn(s, inToken) ==
    IF s = <<>> THEN 0
    ELSE IF IsSpace(Head(s)) THEN TokensIn(Tail(s), FALSE)
         ELSE (IF inToken THEN 0 ELSE 1) + TokensIn(Tail(s), TRUE)

\* the result named name of bundle b
ResultNamed(b, name) ==
    b.Results[CHOOSE i \in 1..Len(b.Results) : b.Results[i].NameAnalyzer = name]

\* C14: for every content, the line_count result is the number of newline
\* characters plus 1, so at least 1 and 1 for the empty content, and the
\* word_count result is the number of non-empty whitespace-delimited tokens;
\* for "hello world\nhello go" they are 2 and 4.
C14_LineAndWordCount ==
    (mode = "seq" /\ apc = "done" /\ files = <<PathTmp>>) =>
        /\ Len(out) = 1
        /\ ResultNamed(out[1], "line_count").Data = IntData(NewlinesIn(tmpContent) + 1)
        /\ ResultNamed(out[1], "line_count").Data.int >= 1
        /\ ResultNamed(out[1], "word_count").Data = IntData(TokensIn(tmpContent, FALSE))
        /\ tmpContent = <<>> => ResultNamed(out[1], "line_count").Data.int = 1
        /\ tmpContent = HelloWorld =>
               /\ ResultNamed(out[1], "line_count").Data.int = 2
               /\ ResultNamed(out[1], "word_count").Data.int = 4

\* the test's call has returned
C14_Witness ==
    /\ mode = "seq"
    /\ apc = "done"
    /\ files = <<PathTmp>>
    /\ tmpContent = HelloWorld
    /\ analyzers = TestAnalyzers
    /\ out = <<[FileName |-> "t.txt", Size |-> 20,
                Results |-> <<[NameAnalyzer |-> "word_count", Data |-> IntData(4)],
                              [NameAnalyzer |-> "line_count", Data |-> IntData(2)]>>]>>

\* the paths received from filePaths whose read failed
SkippedCount == Cardinality({k \in 1..Len(pulled) : ~Readable(pulled[k])})

\* the files pulled whose bundle has not been received yet
InFlight == Len(pulled) - Len(pushed) - SkippedCount

\* C15: exactly workerCount workers exist (none for a count below 1), the
\* files pulled whose bundle the next stage has not yet received are those
\* held by the workers, so at most workerCount, and a worker that holds a file
\* changes it only by having its bundle received: it pulls no path meanwhile.
C15_BackPressure ==
    /\ [](/\ DOMAIN wpc = 1..workers
          /\ InFlight = Cardinality({w \in Workers : wpc[w] = "wait"})
          /\ InFlight <= Cardinality(Workers)
          /\ workers >= 0 => InFlight <= workers)
    /\ [][\A w \in Workers :
              (wpc[w] = "wait" /\ wpath'[w] # wpath[w]) =>
                  /\ pushed' = Append(pushed, [path |-> wpath[w], bundle |-> Bundle(w)])
                  /\ pulled' = pulled
                  /\ wpc'[w] = "recv"]_vars

\* both workers wait to send while the filter is busy with the bundle of a
\* third file
C15_Witness ==
    /\ mode = "main"
    /\ workers = 2
    /\ \A w \in Workers : wpc[w] = "wait" /\ swg[w] = {}
    /\ fpc = "send"
    /\ Len(pulled) = 3
    /\ InFlight = 2

\* C16: every change of a worker's result slots is the creation of the slots,
\* their end of scope, or one task writing the one slot at its analyzer's
\* position, which was empty until then; the step writes no other slot of
\* that file and no slot of another worker's file, in every interleaving.
C16_DisjointSlots ==
    /\ [](\A w \in Workers : \A i \in 1..Len(analysisResults[w]) :
              (analysisResults[w][i] = ZeroResult) <=> (i \in swg[w]))
    /\ [][\A w \in Workers :
              analysisResults'[w] # analysisResults[w] =>
                  \/ /\ analysisResults[w] = <<>>
                     /\ analysisResults'[w] = [i \in 1..Len(analyzers) |-> ZeroResult]
                  \/ /\ analysisResults'[w] = <<>>
                     /\ swg[w] = {}
                  \/ \E i \in swg[w] :
                        /\ swg'[w] = swg[w] \ {i}
                        /\ analysisResults[w][i] = ZeroResult
                        /\ analysisResults'[w][i].NameAnalyzer = analyzers[i]
                        /\ \A j \in 1..Len(analyzers) :
                               j # i => analysisResults'[w][j] = analysisResults[w][j]
                        /\ \A v \in Workers \ {w} :
                               /\ analysisResults'[v] = analysisResults[v]
                               /\ swg'[v] = swg[v]]_vars

\* two files are analyzed at once, their tasks finishing in different orders
C16_Witness ==
    /\ workers = 2
    /\ swg[1] = {2}
    /\ swg[2] = {1, 3}
    /\ analysisResults[1][3].NameAnalyzer = "most_frequent_words"
    /\ analysisResults[2][2].NameAnalyzer = "line_count"
    /\ wpath[1] # wpath[2]

\* C17: filteredResults is closed once, after results is closed and with
\* every bundle received either forwarded or dropped, and nothing is sent on
\* it afterwards; the aggregation loop ends once. filePaths is closed once,
\* by the producer as it returns, after the last file and on cancellation
\* alike (neither close can be held up), and nothing is sent on it
\* afterwards. No channel is closed twice.
C17_CloseOnce ==
    /\ [](~panicked)
    /\ [](filtClosed =>
              /\ resClosed
              /\ fpc = "done"
              /\ fres = NoBundle
              /\ forwarded = SelectSeq(PushedBundles, PassesFilter))
    /\ [](apc = "done" /\ mode = "main" => filtClosed)
    /\ [](mode = "main" => (fpClosed <=> prodPc = "done"))
    /\ [][filtClosed => (filtClosed' /\ forwarded' = forwarded)]_vars
    /\ [][(mode = "main" /\ apc = "done") =>
              (apc' = "done" /\ totalWords' = totalWords /\ globalMap' = globalMap)]_vars
    /\ [][fpClosed => (fpClosed' /\ prodIdx' = prodIdx
                        /\ Len(filePaths') <= Len(filePaths))]_vars
    /\ []((mode = "main" /\ prodPc = "loop"
               /\ (cancelled \/ prodIdx > Len(files))) =>
              ENABLED (ProducerCancelled \/ ProducerExhausted))
    /\ (mode = "main" ~>
            (/\ filtClosed
             /\ apc = "done"
             /\ (cancelled \/ prodIdx > Len(files)) => fpClosed))

\* the producer closed filePaths on cancellation with a file left, and the
\* filter closed after forwarding one bundle and dropping another
C17_Witness ==
    /\ mode = "main"
    /\ cancelled
    /\ fpClosed
    /\ prodIdx <= Len(files)
    /\ filtClosed
    /\ apc = "done"
    /\ Len(pushed) = 2
    /\ Len(forwarded) = 1

\* the sum of the counts of a map[string]int
RECURSIVE SumMapOver(_, _)
SumMapOver(m, ks) ==
    IF ks = {} THEN 0
    ELSE LET k == CHOOSE x \in ks : TRUE IN m[k] + SumMapOver(m, ks \ {k})

SumMap(m) == SumMapOver(m, DOMAIN m)

\* bundle b has a result named name
HasResult(b, name) ==
    \E i \in 1..Len(b.Results) : b.Results[i].NameAnalyzer = name

\* the bundles produced so far: sent on results, or returned
BundlesSoFar == Range(PushedBundles) \cup Range(out)

\* C18: in every bundle that has both results the counts of the frequency
\* map add up to the word count, for every file and content; and in main,
\* after every bundle the aggregation loop has taken in, the counts of
\* globalMap add up to totalWords.
C18_FrequenciesSumToWords ==
    /\ \A b \in BundlesSoFar :
           (HasResult(b, "word_count") /\ HasResult(b, "most_frequent_words")) =>
               SumMap(ResultNamed(b, "most_frequent_words").Data.map)
                   = ResultNamed(b, "word_count").Data.int
    /\ mode = "main" => SumMap(globalMap) = totalWords

\* the loop has taken in two bundles with a word in common and is not done
C18_Witness ==
    /\ mode = "main"
    /\ apc = "range"
    /\ Len(forwarded) = 2
    /\ totalWords = 7
    /\ DOMAIN globalMap = {<<"h", "i">>, <<"a">>, <<"b">>}
    /\ globalMap[<<"h", "i">>] = 3

\* C19: AnalyzeParallel with workers <= 0 and a non-empty list never
\* returns: the feeder stays at its first send, filePaths and results are
\* never closed and the caller stays in its loop with nothing collected;
\* with an empty list it returns, and returns the empty list, whatever the
\* worker count.
C19_NoWorkersNeverReturns ==
    /\ []((mode = "par" /\ workers <= 0 /\ files # <<>>) =>
              /\ apc = "range"
              /\ prodPc = "loop"
              /\ prodIdx = 1
              /\ ~fpClosed
              /\ ~resClosed
              /\ out = <<>>)
    /\ []((mode = "par" /\ files = <<>>) => out = <<>>)
    /\ ((mode = "par" /\ files = <<>>) ~> (ParDone /\ out = <<>>))

\* the call with no worker and three files: no goroutine can take a step
C19_Witness ==
    /\ mode = "par"
    /\ workers = 0
    /\ Len(files) = 3
    /\ prodPc = "loop"
    /\ apc = "range"
    /\ ~ENABLED Next

\* C20: main with -workers <= 0 still ends: no path is ever received, no
\* bundle is sent or forwarded, the totals stay zero and every path enqueued
\* stays in filePaths; the closer, the filter and the aggregation loop finish
\* with results and filteredResults closed. (With more files than filePaths
\* holds the producer stays blocked unless the run is cancelled.)
C20_NoWorkersStillEnds ==
    /\ []((mode = "main" /\ workers <= 0) =>
              /\ pulled = <<>> /\ pushed = <<>> /\ forwarded = <<>>
              /\ totalWords = 0 /\ totalLines = 0 /\ DOMAIN globalMap = {}
              /\ filePaths = SubSeq(files, 1, prodIdx - 1))
    /\ ((mode = "main" /\ workers <= 0) ~>
            (/\ apc = "done"
             /\ closerPc = "done" /\ resClosed
             /\ fpc = "done" /\ filtClosed
             /\ printed = <<>>))

\* main has ended without cancellation while the producer is blocked at the
\* send of the last of more files than filePaths holds
C20_Witness ==
    /\ mode = "main"
    /\ workers = 0
    /\ ~cancelled
    /\ apc = "done"
    /\ Len(files) > FilePathsCap
    /\ prodPc = "loop"
    /\ prodIdx = Len(files)
    /\ Len(filePaths) = FilePathsCap
    /\ ~ENABLED ProducerSend

=============================================================================
